---- MODULE Spec2Model ----
(***************************************************************************)
(* Model of wedding_planner.py: the guest table held in session state, the *)
(* CSV backing file, load_data / save_data, the add-guest form handler,    *)
(* the data-editor handler and the dashboard aggregates.                   *)
(*                                                                         *)
(* Text is modelled as a tuple of one-character strings so that the CSV    *)
(* writer and the CSV reader's type inference are computed, not assumed.   *)
(***************************************************************************)
EXTENDS Integers, Sequences, FiniteSets, TLC

VARIABLES data, file, op, arg, view

vars == <<data, file, op, arg, view>>

(***************************************************************************)
(* Bounds of the model.                                                    *)
(***************************************************************************)
MaxRows == 2

(***************************************************************************)
(* The master schema (COLUMNS) and the legacy column name.                 *)
(***************************************************************************)
COLUMNS ==
    << "Name", "Category", "City", "Mobile", "Event",
       "Headcount", "Rooms Required", "Invite Given", "Notes" >>

text_cols == << "Name", "Category", "City", "Mobile", "Event", "Notes" >>

LEGACY == "Accommodation Needed"

Range(s) == { s[i] : i \in 1..Len(s) }

(***************************************************************************)
(* Text literals used by the program and by the modelled inputs.           *)
(***************************************************************************)
EmptyText == << >>
TxtTrue   == << "T", "r", "u", "e" >>
TxtFalse  == << "F", "a", "l", "s", "e" >>
TxtReception == << "R", "e", "c", "e", "p", "t", "i", "o", "n" >>
TxtWedding ==
    << "W", "e", "d", "d", "i", "n", "g", " ", "(", "M", "u", "g", "u", "r",
       "t", "h", "a", "m", ")" >>
TxtBoth   == << "B", "o", "t", "h" >>
TxtFamily == << "F", "a", "m", "i", "l", "y" >>

(***************************************************************************)
(* Cells of a DataFrame.  A cell is a Python str, an int64, a float64      *)
(* (only integral floats occur; [f |-> n] is n.0), a bool, or the missing  *)
(* value (NaN / None).                                                     *)
(***************************************************************************)
Str(s)  == [s |-> s]
Int64(n) == [i |-> n]
Flt(n)  == [f |-> n]
Bool(b) == [b |-> b]
NaN     == [nan |-> TRUE]

IsStr(c)  == DOMAIN c = {"s"}
IsInt(c)  == DOMAIN c = {"i"}
IsFlt(c)  == DOMAIN c = {"f"}
IsBool(c) == DOMAIN c = {"b"}
IsNaN(c)  == DOMAIN c = {"nan"}

(***************************************************************************)
(* Decimal text of integers, as str(int) and the CSV writer produce it.    *)
(***************************************************************************)
Digits == << "0", "1", "2", "3", "4", "5", "6", "7", "8", "9" >>

IsDigit(ch) == ch \in Range(Digits)

DigitVal(ch) == (CHOOSE k \in 1..10 : Digits[k] = ch) - 1

RECURSIVE NatToStr(_)
NatToStr(n) ==
    IF n < 10 THEN << Digits[n + 1] >>
    ELSE NatToStr(n \div 10) \o << Digits[(n % 10) + 1] >>

IntToStr(n) == IF n < 0 THEN << "-" >> \o NatToStr(0 - n) ELSE NatToStr(n)

FloatToStr(n) == IntToStr(n) \o << ".", "0" >>

BoolToStr(b) == IF b THEN TxtTrue ELSE TxtFalse

(***************************************************************************)
(* pandas.read_csv token recognition.                                      *)
(***************************************************************************)
NA_VALUES ==
    { << >>,
      << "N", "A" >>, << "N", "/", "A" >>, << "n", "/", "a" >>,
      << "N", "a", "N" >>, << "n", "a", "n" >>,
      << "-", "N", "a", "N" >>, << "-", "n", "a", "n" >>,
      << "N", "U", "L", "L" >>, << "n", "u", "l", "l" >>,
      << "N", "o", "n", "e" >>,
      << "#", "N", "A" >>, << "#", "N", "/", "A" >>, << "<", "N", "A", ">" >> }

IsNA(s) == s \in NA_VALUES

TRUE_VALUES  == { TxtTrue, << "T", "R", "U", "E" >>, << "t", "r", "u", "e" >> }
FALSE_VALUES == { TxtFalse, << "F", "A", "L", "S", "E" >>, << "f", "a", "l", "s", "e" >> }

IsBoolToken(s) == s \in TRUE_VALUES \cup FALSE_VALUES

HasSign(s) == Len(s) > 0 /\ s[1] \in {"+", "-"}

Unsigned(s) == IF HasSign(s) THEN SubSeq(s, 2, Len(s)) ELSE s

AllDigits(s) == Len(s) > 0 /\ \A k \in 1..Len(s) : IsDigit(s[k])

\* An integer token: optional sign, then one or more digits.
IsIntToken(s) == AllDigits(Unsigned(s))

\* A float token with a decimal point: optional sign, digits, ".", digits.
IsFloatToken(s) ==
    LET u == Unsigned(s)
    IN  \E p \in 1..Len(u) :
            /\ u[p] = "."
            /\ AllDigits(SubSeq(u, 1, p - 1))
            /\ p < Len(u)
            /\ AllDigits(SubSeq(u, p + 1, Len(u)))

RECURSIVE NatValue(_)
NatValue(s) ==
    IF Len(s) = 0 THEN 0
    ELSE 10 * NatValue(SubSeq(s, 1, Len(s) - 1)) + DigitVal(s[Len(s)])

IntValue(s) ==
    IF HasSign(s) /\ s[1] = "-" THEN 0 - NatValue(Unsigned(s))
    ELSE NatValue(Unsigned(s))

\* The integral part of a numeric token (the fraction of every float token
\* that occurs is zero, see FloatToStr).
NumValue(s) ==
    IF IsIntToken(s) THEN IntValue(s)
    ELSE LET u == Unsigned(s)
             p == CHOOSE q \in 1..Len(u) : u[q] = "."
             m == NatValue(SubSeq(u, 1, p - 1))
         IN  IF HasSign(s) /\ s[1] = "-" THEN 0 - m ELSE m

(***************************************************************************)
(* The backing file guest_list.csv.  Either it does not exist, or it is a  *)
(* header (column names) and a grid of cell texts, one row per record.     *)
(* The CSV quoting of a cell is not modelled: the writer quotes and the    *)
(* reader unquotes, so the grid is what both sides see.                    *)
(***************************************************************************)
NoFile == [exists |-> FALSE]

CsvFile(header, rows) == [header |-> header, rows |-> rows]

FileExists(f) == f # NoFile

IndexOf(seq, x) == CHOOSE j \in 1..Len(seq) : seq[j] = x

(***************************************************************************)
(* A DataFrame: the ordered column names and the ordered rows; a row maps  *)
(* each column name to a cell.                                             *)
(***************************************************************************)
DataFrame(columns, rows) == [columns |-> columns, rows |-> rows]

HasColumn(df, col) == col \in Range(df.columns)

\* df[col] = vals (one value per row); a new column goes last.
SetColumn(df, col, vals) ==
    DataFrame(
        IF HasColumn(df, col) THEN df.columns ELSE Append(df.columns, col),
        [ r \in 1..Len(df.rows) |->
            [ c \in Range(df.columns) \cup {col} |->
                IF c = col THEN vals[r] ELSE df.rows[r][c] ] ])

\* df[cols]: projection to the listed columns, in the listed order.
SelectColumns(df, cols) ==
    DataFrame(cols,
        [ r \in 1..Len(df.rows) |-> [ c \in Range(cols) |-> df.rows[r][c] ] ])

(***************************************************************************)
(* pd.read_csv: the dtype of each column is inferred from all its cells.   *)
(*   no rows                      -> object                                *)
(*   only NA tokens               -> float64 (all NaN)                     *)
(*   integer tokens               -> int64, or float64 if an NA is present *)
(*   integer/float tokens         -> float64                               *)
(*   boolean tokens               -> bool, or object if an NA is present   *)
(*   anything else                -> object (str, NaN for NA tokens)       *)
(***************************************************************************)
InferDtype(cells) ==
    LET real == { k \in 1..Len(cells) : ~IsNA(cells[k]) }
        hasNA == \E k \in 1..Len(cells) : IsNA(cells[k])
    IN  IF Len(cells) = 0 THEN "object"
        ELSE IF real = {} THEN "float64"
        ELSE IF \A k \in real : IsIntToken(cells[k])
             THEN IF hasNA THEN "float64" ELSE "int64"
        ELSE IF \A k \in real : IsIntToken(cells[k]) \/ IsFloatToken(cells[k])
             THEN "float64"
        ELSE IF \A k \in real : IsBoolToken(cells[k])
             THEN IF hasNA THEN "object_bool" ELSE "bool"
        ELSE "object"

ParseCell(dtype, s) ==
    CASE dtype = "int64"       -> Int64(IntValue(s))
      [] dtype = "float64"     -> IF IsNA(s) THEN NaN ELSE Flt(NumValue(s))
      [] dtype = "bool"        -> Bool(s \in TRUE_VALUES)
      [] dtype = "object_bool" -> IF IsNA(s) THEN NaN ELSE Bool(s \in TRUE_VALUES)
      [] OTHER                 -> IF IsNA(s) THEN NaN ELSE Str(s)

read_csv(f) ==
    LET dtype == [ j \in 1..Len(f.header) |->
                     InferDtype([ r \in 1..Len(f.rows) |-> f.rows[r][j] ]) ]
    IN  DataFrame(f.header,
            [ r \in 1..Len(f.rows) |->
                [ c \in Range(f.header) |->
                    ParseCell(dtype[IndexOf(f.header, c)],
                              f.rows[r][IndexOf(f.header, c)]) ] ])

(***************************************************************************)
(* DataFrame.to_csv(index=False): header, then one line per row.           *)
(***************************************************************************)
CellToCsv(c) ==
    CASE IsStr(c)  -> c.s
      [] IsInt(c)  -> IntToStr(c.i)
      [] IsFlt(c)  -> FloatToStr(c.f)
      [] IsBool(c) -> BoolToStr(c.b)
      [] OTHER     -> EmptyText

to_csv(df) ==
    CsvFile(df.columns,
        [ r \in 1..Len(df.rows) |->
            [ j \in 1..Len(df.columns) |-> CellToCsv(df.rows[r][df.columns[j]]) ] ])

\* A save that writes every record but the newest.
save_data_WithoutLast(df) ==
    to_csv(DataFrame(df.columns, SubSeq(df.rows, 1, Len(df.rows) - 1)))

\* save_data(df): the backing file is overwritten with the whole table.
save_data(df) == to_csv(df)

(***************************************************************************)
(* load_data, step by step.                                                *)
(***************************************************************************)
\* A migration that compares the legacy value with the text "True".
AccommodationToRooms_Text(x) == IF x = Str(TxtTrue) THEN Int64(1) ELSE Int64(0)

\* lambda x: 1 if x == True else 0   (Python: 1 == True and 1.0 == True)
AccommodationToRooms(x) ==
    IF \/ (IsBool(x) /\ x.b)
       \/ (IsInt(x) /\ x.i = 1)
       \/ (IsFlt(x) /\ x.f = 1)
    THEN Int64(1) ELSE Int64(0)

Migrate(df) ==
    IF HasColumn(df, LEGACY) /\ ~HasColumn(df, "Rooms Required")
    THEN SetColumn(df, "Rooms Required",
            [ r \in 1..Len(df.rows) |-> AccommodationToRooms(df.rows[r][LEGACY]) ])
    ELSE df

\* Column completion with Headcount defaulting to 0.
ColumnDefault_ZeroHeadcount(col) ==
    CASE col = "Headcount"      -> Int64(0)
      [] col = "Rooms Required" -> Int64(0)
      [] col = "Invite Given"   -> Bool(FALSE)
      [] OTHER                  -> Str(EmptyText)

ColumnDefault(col) ==
    CASE col = "Headcount"      -> Int64(1)
      [] col = "Rooms Required" -> Int64(0)
      [] col = "Invite Given"   -> Bool(FALSE)
      [] OTHER                  -> Str(EmptyText)

RECURSIVE CompleteFrom(_, _)
CompleteFrom(df, k) ==
    IF k > Len(COLUMNS) THEN df
    ELSE IF HasColumn(df, COLUMNS[k]) THEN CompleteFrom(df, k + 1)
    ELSE CompleteFrom(
            SetColumn(df, COLUMNS[k],
                [ r \in 1..Len(df.rows) |-> ColumnDefault(COLUMNS[k]) ]),
            k + 1)

EnsureColumns(df) == CompleteFrom(df, 1)

\* fillna("").astype(str)
AsStr(c) ==
    CASE IsNaN(c)  -> Str(EmptyText)
      [] IsStr(c)  -> c
      [] IsInt(c)  -> Str(IntToStr(c.i))
      [] IsFlt(c)  -> Str(FloatToStr(c.f))
      [] IsBool(c) -> Str(BoolToStr(c.b))

\* fillna(d).astype(int); a str cell is converted by int(), which raises on
\* anything but an integer token (see Loadable).
AsInt(c, d) ==
    CASE IsNaN(c)  -> Int64(d)
      [] IsInt(c)  -> c
      [] IsFlt(c)  -> Int64(c.f)
      [] IsBool(c) -> Int64(IF c.b THEN 1 ELSE 0)
      [] IsStr(c)  -> Int64(IntValue(c.s))

\* fillna(False).astype(bool); a non-empty str is truthy.
AsBool(c) ==
    CASE IsNaN(c)  -> Bool(FALSE)
      [] IsBool(c) -> c
      [] IsInt(c)  -> Bool(c.i # 0)
      [] IsFlt(c)  -> Bool(c.f # 0)
      [] IsStr(c)  -> Bool(c.s # EmptyText)

CoerceCell(col, c) ==
    CASE col \in Range(text_cols) -> AsStr(c)
      [] col = "Headcount"        -> AsInt(c, 1)
      [] col = "Rooms Required"   -> AsInt(c, 0)
      [] col = "Invite Given"     -> AsBool(c)
      [] OTHER                    -> c

TypeSafety(df) ==
    DataFrame(df.columns,
        [ r \in 1..Len(df.rows) |->
            [ c \in Range(df.columns) |-> CoerceCell(c, df.rows[r][c]) ] ])

load_data(f) ==
    LET df == IF FileExists(f)
              THEN EnsureColumns(Migrate(read_csv(f)))
              ELSE DataFrame(COLUMNS, << >>)
    IN  SelectColumns(TypeSafety(df), COLUMNS)

\* astype(int) raises ValueError (the load is fatal) when a numeric column
\* holds text that is not an integer token.
Loadable(f) ==
    IF ~FileExists(f) THEN TRUE
    ELSE LET df == EnsureColumns(Migrate(read_csv(f)))
         IN  \A r \in 1..Len(df.rows) : \A c \in {"Headcount", "Rooms Required"} :
                IsStr(df.rows[r][c]) => IsIntToken(df.rows[r][c].s)

(***************************************************************************)
(* Column dtypes.  A numeric column that holds a missing value or a float  *)
(* is float64, so its integers are floats; this is what pd.concat and a    *)
(* row assignment produce.                                                 *)
(***************************************************************************)
IsNumeric(c) == IsInt(c) \/ IsFlt(c)

Upcast(df) ==
    LET floatCol(c) ==
            /\ \E r \in 1..Len(df.rows) : IsFlt(df.rows[r][c]) \/ IsNaN(df.rows[r][c])
            /\ \A r \in 1..Len(df.rows) : IsNumeric(df.rows[r][c]) \/ IsNaN(df.rows[r][c])
    IN  DataFrame(df.columns,
            [ r \in 1..Len(df.rows) |->
                [ c \in Range(df.columns) |->
                    IF floatCol(c) /\ IsInt(df.rows[r][c])
                    THEN Flt(df.rows[r][c].i) ELSE df.rows[r][c] ] ])

\* pd.concat([df, new_entry], ignore_index=True) for a one-row new_entry
\* with the same columns.
concat(df, row) == Upcast(DataFrame(df.columns, Append(df.rows, row)))

\* A comparison of the shapes only.
equals_ShapeOnly(a, b) == a.columns = b.columns /\ Len(a.rows) = Len(b.rows)

\* DataFrame.equals: same shape, same dtypes, equal cells, NaN equal to NaN.
equals(a, b) == a = b

IsEmpty(df) == Len(df.rows) = 0

(***************************************************************************)
(* Dashboard aggregates (tab1 and tab2).                                   *)
(***************************************************************************)
CellNumber(c) == IF IsInt(c) THEN c.i ELSE IF IsFlt(c) THEN c.f ELSE 0

\* Series.sum() skips missing values.
RECURSIVE SumColumn(_, _)
SumColumn(rows, col) ==
    IF Len(rows) = 0 THEN 0
    ELSE CellNumber(rows[1][col]) + SumColumn(Tail(rows), col)

\* df[mask]: the rows whose entry in the boolean mask is true, in order.
RECURSIVE MaskedRows(_, _, _)
MaskedRows(rows, mask, r) ==
    IF r > Len(rows) THEN << >>
    ELSE (IF mask[r] THEN << rows[r] >> ELSE << >>) \o MaskedRows(rows, mask, r + 1)

FilterRows(df, mask) == DataFrame(df.columns, MaskedRows(df.rows, mask, 1))

total_pax(df) == SumColumn(df.rows, "Headcount")

total_families(df) == Len(df.rows)

\* df["Invite Given"] == True
InviteIsTrue(df) == [ r \in 1..Len(df.rows) |-> df.rows[r]["Invite Given"] = Bool(TRUE) ]

invites_sent(df) == Len(FilterRows(df, InviteIsTrue(df)).rows)

pending(df) == total_families(df) - invites_sent(df)

\* df["Event"].isin(values)
EventIsin(df, values) ==
    [ r \in 1..Len(df.rows) |-> df.rows[r]["Event"] \in { Str(v) : v \in values } ]

\* A reception filter that leaves out Event = Both.
ForReception_Only(df) == EventIsin(df, { TxtReception })

ForReception(df) == EventIsin(df, { TxtReception, TxtBoth })

ForWedding(df) == EventIsin(df, { TxtWedding, TxtBoth })

reception_total(df) == SumColumn(FilterRows(df, ForReception(df)).rows, "Headcount")

wedding_total(df) == SumColumn(FilterRows(df, ForWedding(df)).rows, "Headcount")

total_rooms(df) == SumColumn(df.rows, "Rooms Required")

\* A rooms filter with >= in place of >.
NeedsRoom_NonNegative(df) ==
    [ r \in 1..Len(df.rows) |->
        /\ IsNumeric(df.rows[r]["Rooms Required"])
        /\ CellNumber(df.rows[r]["Rooms Required"]) >= 0 ]

\* df["Rooms Required"] > 0; a missing value compares false.
NeedsRoom(df) ==
    [ r \in 1..Len(df.rows) |->
        /\ IsNumeric(df.rows[r]["Rooms Required"])
        /\ CellNumber(df.rows[r]["Rooms Required"]) > 0 ]

ROOM_COLUMNS == << "Name", "City", "Rooms Required", "Mobile" >>

room_df(df) == SelectColumns(FilterRows(df, NeedsRoom(df)), ROOM_COLUMNS)

\* One rendering of tab1 and tab2 from df; nothing is computed for an empty
\* table.
Render(df) ==
    IF IsEmpty(df) THEN [ empty |-> TRUE ]
    ELSE [ total_pax        |-> total_pax(df),
           total_families   |-> total_families(df),
           invites_sent     |-> invites_sent(df),
           pending          |-> pending(df),
           reception_total  |-> reception_total(df),
           wedding_total    |-> wedding_total(df),
           total_rooms      |-> total_rooms(df),
           room_df          |-> room_df(df) ]

Rendered(v) == "room_df" \in DOMAIN v

(***************************************************************************)
(* Inputs of the model.                                                    *)
(***************************************************************************)
TxtA  == << "A" >>
Txt09 == << "0", "9" >>

\* What the add-guest form can submit (widgets of add_guest_form): three
\* guests that between them take every Event, an empty and a numeric Mobile,
\* Rooms 0 and more, Invite Given unticked and ticked; each is submitted with
\* and without its Name.
NameInputs == { EmptyText, TxtA }

Guest(mobile, event, headcount, rooms, invite_given) ==
    [ name |-> TxtA, category |-> TxtFamily, city |-> EmptyText,
      mobile |-> mobile, event |-> event, headcount |-> headcount,
      rooms |-> rooms, invite_given |-> invite_given, notes |-> EmptyText ]

Guests ==
    { Guest(EmptyText, TxtReception, 1, 0, FALSE),
      Guest(Txt09,     TxtBoth,      5, 1, TRUE),
      Guest(EmptyText, TxtWedding,   2, 2, FALSE) }

FormInputs == { [ g EXCEPT !.name = n ] : g \in Guests, n \in NameInputs }

\* Backing files a session can start from: none, a header-only file, files
\* of the earlier schema (legacy column, no "Rooms Required"), a file with
\* both columns, files with only the Name column, and a file with all nine
\* columns of which only Name is filled in.
MaxFileRows == 3

RECURSIVE SeqsOver(_, _)
SeqsOver(S, n) ==
    IF n = 0 THEN { << >> }
    ELSE { Append(q, x) : q \in SeqsOver(S, n - 1), x \in S }

\* The Name in row r of an initial file: "A", "B", ...
RowName(r) == << << "A", "B", "C", "D", "E", "F" >>[r] >>

LegacyFiles ==
    { CsvFile(<< "Name", LEGACY >>, [ r \in 1..Len(v) |-> << RowName(r), v[r] >> ]) :
        v \in UNION { SeqsOver({ TxtTrue, TxtFalse }, n) : n \in 1..MaxFileRows } }

BothColumnsFile ==
    CsvFile(<< "Name", "Rooms Required", LEGACY >>, << << TxtA, << "2" >>, TxtFalse >> >>)

NameOnlyFiles ==
    { CsvFile(<< "Name" >>, [ r \in 1..n |-> << RowName(r) >> ]) : n \in 1..MaxFileRows }

SparseFile ==
    CsvFile(COLUMNS,
        << [ j \in 1..Len(COLUMNS) |-> IF COLUMNS[j] = "Name" THEN TxtA ELSE EmptyText ] >>)

InitialFiles ==
    { NoFile, CsvFile(COLUMNS, << >>), BothColumnsFile, SparseFile }
        \cup LegacyFiles \cup NameOnlyFiles

NoArg == [ none |-> TRUE ]

(***************************************************************************)
(* st.data_editor(df, num_rows="dynamic"): the table the editor returns in *)
(* one script run is df with at most one user edit applied: nothing, a row *)
(* deleted, an empty row added (every cell missing: no column configures a *)
(* default), or the "Invite Given" checkbox of one row set.                *)
(***************************************************************************)
DeleteRow(df, k) ==
    DataFrame(df.columns,
        SubSeq(df.rows, 1, k - 1) \o SubSeq(df.rows, k + 1, Len(df.rows)))

AddRow(df) ==
    Upcast(DataFrame(df.columns, Append(df.rows, [ c \in Range(df.columns) |-> NaN ])))

SetCell(df, k, col, v) ==
    Upcast(DataFrame(df.columns,
        [ df.rows EXCEPT ![k] = [ df.rows[k] EXCEPT ![col] = v ] ]))

data_editor(df) ==
    { df }
      \cup { DeleteRow(df, k) : k \in 1..Len(df.rows) }
      \cup ( IF Len(df.rows) < MaxRows THEN { AddRow(df) } ELSE { } )
      \cup { SetCell(df, k, "Invite Given", Bool(b)) :
                k \in 1..Len(df.rows), b \in BOOLEAN }

(***************************************************************************)
(* The state machine.                                                      *)
(*   data : st.session_state.data                                          *)
(*   file : the backing file guest_list.csv                                *)
(*   view : the aggregates shown by the last rendering of the tabs         *)
(*   op, arg : the operation that produced the state, and its input        *)
(***************************************************************************)
Init ==
    /\ file \in InitialFiles
    /\ Loadable(file)
    /\ data = load_data(file)
    /\ op = "load"
    /\ arg = NoArg
    /\ view = Render(data)

\* A new session: 'data' is not in st.session_state, so it is loaded.
NewSession ==
    /\ data' = load_data(file)
    /\ view' = Render(data')
    /\ op' = "load"
    /\ arg' = NoArg
    /\ UNCHANGED file

NewEntry(fields) ==
    [ c \in Range(COLUMNS) |->
        CASE c = "Name"           -> Str(fields.name)
          [] c = "Category"       -> Str(fields.category)
          [] c = "City"           -> Str(fields.city)
          [] c = "Mobile"         -> Str(fields.mobile)
          [] c = "Event"          -> Str(fields.event)
          [] c = "Headcount"      -> Int64(fields.headcount)
          [] c = "Rooms Required" -> Int64(fields.rooms)
          [] c = "Invite Given"   -> Bool(fields.invite_given)
          [] c = "Notes"          -> Str(fields.notes) ]

\* A submit handler that does not look at the name.
Accepted_Always(fields) == TRUE

\* `if submitted and name`: an empty str is falsy.
Accepted(fields) == fields.name # EmptyText

\* The script run in which the add-guest form is submitted.  An accepted
\* entry is appended and saved and the script reruns; otherwise the run
\* goes on to render the tabs and the editor reports no edit.
AddGuest(fields) ==
    /\ Accepted(fields) => Len(data.rows) < MaxRows
    /\ op' = "addGuest"
    /\ arg' = fields
    /\ IF Accepted(fields)
       THEN /\ data' = concat(data, NewEntry(fields))
            /\ file' = save_data(data')
       ELSE UNCHANGED << data, file >>
    /\ view' = Render(data')

\* The script run in which the editor returns edited_df.
UpdateTable(edited_df) ==
    /\ op' = "updateTable"
    /\ arg' = edited_df
    /\ IF ~equals(data, edited_df)
       THEN /\ data' = edited_df
            /\ file' = save_data(edited_df)
       ELSE UNCHANGED << data, file >>
    /\ view' = Render(data')

Next ==
    \/ NewSession
    \/ \E fields \in FormInputs : AddGuest(fields)
    \/ \E edited_df \in data_editor(data) : UpdateTable(edited_df)

Spec == Init /\ [][Next]_vars

(***************************************************************************)
(* Properties.                                                             *)
(***************************************************************************)
\* The canonical normalized form of a table: the nine columns in order, str
\* in the six text columns, int in Headcount and Rooms Required, bool in
\* Invite Given.
Normalized(df) ==
    /\ df.columns = COLUMNS
    /\ \A r \in 1..Len(df.rows) :
          /\ DOMAIN df.rows[r] = Range(COLUMNS)
          /\ \A c \in Range(text_cols) : IsStr(df.rows[r][c])
          /\ IsInt(df.rows[r]["Headcount"])
          /\ IsInt(df.rows[r]["Rooms Required"])
          /\ IsBool(df.rows[r]["Invite Given"])

Mutations == { "addGuest", "updateTable" }

\* C1: in every reachable state the in-memory table has exactly the nine
\* canonical columns and every record has all nine fields with their declared
\* types.  It fails: a row added in the editor is stored as it comes, with
\* every field missing.
C1_AlwaysTyped == Normalized(data)

\* The table is typed after every load and after every add to a typed table.
C1_TypedAfterLoad == op = "load" => Normalized(data)

\* C2: every step of addGuest or updateTable that changes the in-memory table
\* leaves the backing file equal to the serialization of the whole new table
\* (canonical header, one line per record), and once the file holds the table
\* every further addGuest / updateTable keeps it so.
C2_MutationSaved ==
    [][ op' \in Mutations =>
          /\ (data' # data \/ file = to_csv(data)) => file' = to_csv(data')
          /\ data' # data =>
                /\ file'.header = COLUMNS
                /\ Len(file'.rows) = Len(data'.rows) ]_vars

C2_Witness ==
    /\ op = "updateTable"
    /\ Len(data.rows) = 2
    /\ data.rows[2]["Invite Given"] = Bool(TRUE)
    /\ data.rows[1]["Mobile"] = Str(Txt09)
    /\ file = to_csv(data)
    /\ file.rows[1][IndexOf(COLUMNS, "Mobile")] = Txt09

\* C3: for every table t in canonical normalized form, save(t) followed by
\* load() returns t.  It fails: a Mobile of digits is read back as a number.
C3_RoundTrip == Normalized(data) => load_data(save_data(data)) = data

\* C4: when the loaded file has the legacy column and no "Rooms Required"
\* column, each record's Rooms Required is 1 where the legacy value was true
\* and 0 where it was false, and the table has no legacy column.
C4_Migration ==
    ( /\ op = "load"
      /\ FileExists(file)
      /\ LEGACY \in Range(file.header)
      /\ "Rooms Required" \notin Range(file.header) )
    =>
    /\ LEGACY \notin Range(data.columns)
    /\ Len(data.rows) = Len(file.rows)
    /\ \A r \in 1..Len(file.rows) :
          LET legacy == file.rows[r][IndexOf(file.header, LEGACY)]
          IN  /\ LEGACY \notin DOMAIN data.rows[r]
              /\ legacy \in TRUE_VALUES => data.rows[r]["Rooms Required"] = Int64(1)
              /\ legacy \in FALSE_VALUES => data.rows[r]["Rooms Required"] = Int64(0)

C4_Witness ==
    /\ op = "load"
    /\ FileExists(file)
    /\ file.header = << "Name", LEGACY >>
    /\ [ r \in 1..Len(file.rows) |-> file.rows[r][2] ] = << TxtTrue, TxtFalse, TxtTrue >>
    /\ [ r \in 1..Len(data.rows) |-> data.rows[r]["Rooms Required"] ]
          = << Int64(1), Int64(0), Int64(1) >>

\* C5: addGuest with an empty Name changes neither the in-memory table nor the
\* backing file; with a non-empty Name it appends exactly one record, made of
\* the submitted fields, and saves the table.
C5_EmptyNameRejected ==
    [][ op' = "addGuest" =>
          IF arg'.name = EmptyText
          THEN data' = data /\ file' = file
          ELSE /\ Len(data'.rows) = Len(data.rows) + 1
               /\ data'.rows[Len(data'.rows)]["Name"] = Str(arg'.name)
               /\ data'.rows[Len(data'.rows)]["Mobile"] = Str(arg'.mobile)
               /\ data'.rows[Len(data'.rows)]["Event"] = Str(arg'.event)
               /\ file' = to_csv(data') ]_vars

C5_Witness ==
    /\ op = "addGuest"
    /\ arg.name = EmptyText
    /\ arg.mobile = Txt09
    /\ IsEmpty(data)
    /\ file = NoFile

\* C6: updateTable(newTable) replaces the in-memory table with newTable and
\* saves it if and only if newTable differs from the prior table; otherwise
\* table and file are left as they were.
C6_UpdateIffDiffers ==
    [][ op' = "updateTable" =>
          IF arg' # data
          THEN data' = arg' /\ file' = to_csv(arg')
          ELSE data' = data /\ file' = file ]_vars

C6_Witness ==
    /\ op = "updateTable"
    /\ arg = data
    /\ Len(data.rows) = 1
    /\ data.rows[1]["Invite Given"] = Bool(TRUE)
    /\ data.rows[1]["Event"] = Str(TxtReception)
    /\ file = to_csv(data)

\* The default the load gives a canonical column, written out.
DeclaredDefault(c) ==
    CASE c = "Headcount"      -> [ i |-> 1 ]
      [] c = "Rooms Required" -> [ i |-> 0 ]
      [] c = "Invite Given"   -> [ b |-> FALSE ]
      [] OTHER                -> [ s |-> << >> ]

\* C7 as stated: every canonical column absent from the loaded file is filled
\* with its type default.  It fails for "Rooms Required" when the file has the
\* legacy column: the migration fills it.
C7_AbsentColumnsDefault ==
    (op = "load" /\ FileExists(file)) =>
        \A c \in Range(COLUMNS) \ Range(file.header) :
            \A r \in 1..Len(data.rows) : data.rows[r][c] = DeclaredDefault(c)

\* C7 amended: every canonical column absent from the loaded file, other than
\* "Rooms Required" when the file has the legacy column, is filled with its
\* type default; so a file with only Name loads with Headcount 1, Rooms
\* Required 0, Invite Given false and every other text field empty.
C7_AbsentColumnsDefaultUnlessMigrated ==
    (op = "load" /\ FileExists(file)) =>
        /\ Len(data.rows) = Len(file.rows)
        /\ \A c \in Range(COLUMNS) \ Range(file.header) :
              (c = "Rooms Required" => LEGACY \notin Range(file.header)) =>
                  \A r \in 1..Len(data.rows) : data.rows[r][c] = DeclaredDefault(c)

C7_Witness ==
    /\ op = "load"
    /\ FileExists(file)
    /\ file.header = << "Name" >>
    /\ Len(data.rows) = 2
    /\ data.rows[2]["Name"] = Str(<< "B" >>)
    /\ data.rows[2]["Headcount"] = Int64(1)
    /\ data.rows[2]["Rooms Required"] = Int64(0)
    /\ data.rows[2]["Invite Given"] = Bool(FALSE)
    /\ data.rows[2]["City"] = Str(EmptyText)

\* C8: the rendered invitesSent and pending add up to familyCount, pending
\* being the number of records whose Invite Given is false.  It fails on a
\* table with a record whose Invite Given is missing (see C1).
C8_PendingInvariant ==
    Rendered(view) =>
        /\ view.invites_sent + view.pending = view.total_families
        /\ view.invites_sent =
              Cardinality({ r \in 1..Len(data.rows) : data.rows[r]["Invite Given"] = [ b |-> TRUE ] })
        /\ view.pending =
              Cardinality({ r \in 1..Len(data.rows) : data.rows[r]["Invite Given"] = [ b |-> FALSE ] })
        /\ view.total_families = Len(data.rows)

RECURSIVE HeadcountOver(_, _)
HeadcountOver(rows, S) ==
    IF S = { } THEN 0
    ELSE LET r == CHOOSE x \in S : TRUE
             h == rows[r]["Headcount"]
             n == IF "i" \in DOMAIN h THEN h.i ELSE IF "f" \in DOMAIN h THEN h.f ELSE 0
         IN  n + HeadcountOver(rows, S \ { r })

EventIs(df, e) == { r \in 1..Len(df.rows) : df.rows[r]["Event"] = [ s |-> e ] }

\* C9: receptionPlates is the sum of Headcount over the records with Event
\* Reception or Both and weddingPlates the sum over those with Event Wedding
\* (Mugurtham) or Both, so a record with Event Both counts in full in both; a
\* single record with Event Both and Headcount 5 gives 5 and 5.
C9_CateringDoubleCount ==
    Rendered(view) =>
        /\ view.reception_total =
              HeadcountOver(data.rows, EventIs(data, TxtReception))
                + HeadcountOver(data.rows, EventIs(data, TxtBoth))
        /\ view.wedding_total =
              HeadcountOver(data.rows, EventIs(data, TxtWedding))
                + HeadcountOver(data.rows, EventIs(data, TxtBoth))
        /\ ( /\ Len(data.rows) = 1
             /\ data.rows[1]["Event"] = [ s |-> TxtBoth ]
             /\ data.rows[1]["Headcount"] = [ i |-> 5 ] )
           => view.reception_total = 5 /\ view.wedding_total = 5

C9_Witness ==
    /\ Rendered(view)
    /\ Len(data.rows) = 1
    /\ data.rows[1]["Event"] = Str(TxtBoth)
    /\ data.rows[1]["Headcount"] = Int64(5)
    /\ view.reception_total = 5
    /\ view.wedding_total = 5

PositiveRooms(df) ==
    { r \in 1..Len(df.rows) :
        LET c == df.rows[r]["Rooms Required"]
        IN  \/ "i" \in DOMAIN c /\ c.i > 0
            \/ "f" \in DOMAIN c /\ c.f > 0 }

\* C10: the rendered rooms table holds exactly the records with Rooms Required
\* > 0, in their original relative order, each with only Name, City, Rooms
\* Required and Mobile; the table it is computed from keeps its columns.
C10_RoomsFilter ==
    Rendered(view) =>
        LET Q == PositiveRooms(data)
            out == view.room_df
        IN  /\ out.columns = << "Name", "City", "Rooms Required", "Mobile" >>
            /\ Len(out.rows) = Cardinality(Q)
            /\ \E f \in [ 1..Len(out.rows) -> Q ] :
                  /\ \A j, k \in 1..Len(out.rows) : j < k => f[j] < f[k]
                  /\ \A k \in 1..Len(out.rows) :
                        /\ DOMAIN out.rows[k] = { "Name", "City", "Rooms Required", "Mobile" }
                        /\ \A c \in DOMAIN out.rows[k] : out.rows[k][c] = data.rows[f[k]][c]
            /\ Len(data.columns) = Len(COLUMNS)
            /\ \A r \in 1..Len(data.rows) : "Headcount" \in DOMAIN data.rows[r]

C10_Witness ==
    /\ Rendered(view)
    /\ Len(data.rows) = 3
    /\ PositiveRooms(data) = { 1, 3 }
    /\ Len(view.room_df.rows) = 2
    /\ view.room_df.rows[1]["Name"] = Str(<< "A" >>)
    /\ view.room_df.rows[2]["Name"] = Str(<< "C" >>)

====
